---- MODULE Spec2Model ----
(***************************************************************************)
(* Model of spacetoolbox/Area_Mach_relation/area_mach_relation.py:         *)
(*   area_to_mach            the decaying step search that inverts the     *)
(*                           area-Mach relation on one branch              *)
(*   nozzle_contour_to_mach  the loop that applies it to a contour and     *)
(*                           writes the two profile tables                 *)
(*                                                                         *)
(* Every number of the program is an IEEE-754 binary64 value.  A value is  *)
(* the record [s, h, l, e] standing for (-1)^s * (h * 2^26 + l) * 2^e with *)
(* a 53 bit significand (2^26 <= h < 2^27, 0 <= l < 2^26); zero is         *)
(* [s=0, h=0, l=0, e=0].  FAdd, FMul and FDiv round to nearest, ties to     *)
(* even, as the hardware does.  The exponent is an unbounded integer:      *)
(* overflow, subnormals, infinities and NaN are outside the model, and the *)
(* inputs are chosen so that no value of a run leaves the normal range.    *)
(***************************************************************************)
EXTENDS Integers, Sequences, FiniteSets, TLC

\* ------------------------------------------------------------------------
\* binary64 arithmetic
\* ------------------------------------------------------------------------
B13 == 8192
B26 == 67108864
B27 == 134217728
B29 == 536870912

Pow2Tab == <<2, 4, 8, 16, 32, 64, 128, 256, 512, 1024, 2048, 4096, 8192,
             16384, 32768, 65536, 131072, 262144, 524288, 1048576, 2097152,
             4194304, 8388608, 16777216, 33554432, 67108864, 134217728,
             268435456, 536870912, 1073741824>>

Pow2(n) == IF n = 0 THEN 1 ELSE Pow2Tab[n]

FZero == [s |-> 0, h |-> 0, l |-> 0, e |-> 0]

IsZero(a) == a.h = 0 /\ a.l = 0

\* Rounding of an extended significand X = H * 2^29 + L (three extra low
\* bits, plus a sticky flag for what lies below them), normalised so that
\* 2^26 <= H < 2^27, to 53 bits, nearest-even.  The value is X * 2^ex.
RoundGRS(s, H, L, sticky, ex) ==
    LET grs == L % 8
        l0  == L \div 8
        up  == \/ grs > 4
               \/ grs = 4 /\ sticky
               \/ grs = 4 /\ ~sticky /\ l0 % 2 = 1
        l1  == IF up THEN l0 + 1 ELSE l0
        h1  == IF l1 = B26 THEN H + 1 ELSE H
        l2  == IF l1 = B26 THEN 0 ELSE l1
    IN  IF h1 = B27
        THEN [s |-> s, h |-> B26, l |-> 0, e |-> ex + 4]
        ELSE [s |-> s, h |-> h1, l |-> l2, e |-> ex + 3]

RECURSIVE Normalise(_, _, _, _, _)
Normalise(s, H, L, sticky, ex) ==
    IF H = 0 /\ L = 0 THEN FZero
    ELSE IF H >= B27
    THEN Normalise(s, H \div 2, (L \div 2) + (H % 2) * 268435456,
                   sticky \/ (L % 2 = 1), ex + 1)
    ELSE IF H = 0
    THEN Normalise(s, L \div 4, (L % 4) * B27, sticky, ex - 27)
    ELSE IF H < B13
    THEN Normalise(s, H * B13 + L \div 65536, (L % 65536) * B13, sticky,
                   ex - 13)
    ELSE IF H < B26
    THEN Normalise(s, 2 * H + (2 * L) \div B29, (2 * L) % B29, sticky, ex - 1)
    ELSE RoundGRS(s, H, L, sticky, ex)

\* X \div 2^d of an extended significand, as <<H, L, sticky>>
ShiftRight(H, L, d) ==
    IF d = 0 THEN <<H, L, FALSE>>
    ELSE IF d <= 28
    THEN <<H \div Pow2(d), (L \div Pow2(d)) + (H % Pow2(d)) * Pow2(29 - d),
           L % Pow2(d) # 0>>
    ELSE IF d <= 57
    THEN <<0, H \div Pow2(d - 29), L # 0 \/ H % Pow2(d - 29) # 0>>
    ELSE <<0, 0, TRUE>>

\* |a| < |b|
MagLess(a, b) ==
    IF IsZero(b) THEN FALSE
    ELSE IF IsZero(a) THEN TRUE
    ELSE \/ a.e < b.e
         \/ a.e = b.e /\ a.h < b.h
         \/ a.e = b.e /\ a.h = b.h /\ a.l < b.l

FNeg(a) == IF IsZero(a) THEN a ELSE [a EXCEPT !.s = 1 - a.s]

\* a < b, a > b
FLess(a, b) ==
    IF a.s = 1 /\ b.s = 0 THEN ~(IsZero(a) /\ IsZero(b))
    ELSE IF a.s = 0 /\ b.s = 1 THEN FALSE
    ELSE IF a.s = 0 THEN MagLess(a, b)
    ELSE MagLess(b, a)

FGreater(a, b) == FLess(b, a)

\* a + b for |a| >= |b|, both non-zero
AddOrdered(a, b) ==
    LET d   == a.e - b.e
        sh  == ShiftRight(b.h, 8 * b.l, d)
        st  == sh[3]
    IN  IF a.s = b.s
        THEN LET Ls == 8 * a.l + sh[2]
             IN  Normalise(a.s, a.h + sh[1] + Ls \div B29, Ls % B29, st,
                           a.e - 3)
        ELSE LET sub == sh[2] + (IF st THEN 1 ELSE 0)
                 Ld  == 8 * a.l - sub
                 bor == IF Ld < 0 THEN 1 ELSE 0
             IN  Normalise(a.s, a.h - sh[1] - bor, Ld + bor * B29, st,
                           a.e - 3)

FAdd(a, b) ==
    IF IsZero(a) THEN b
    ELSE IF IsZero(b) THEN a
    ELSE IF MagLess(a, b) THEN AddOrdered(b, a)
    ELSE AddOrdered(a, b)

FSub(a, b) == FAdd(a, FNeg(b))

FMul(a, b) ==
    IF IsZero(a) \/ IsZero(b) THEN FZero
    ELSE
    LET a0 == a.l % B13
        a1 == a.l \div B13
        a2 == a.h % B13
        a3 == a.h \div B13
        b0 == b.l % B13
        b1 == b.l \div B13
        b2 == b.h % B13
        b3 == b.h \div B13
        t0 == a0 * b0
        t1 == a0 * b1 + a1 * b0 + t0 \div B13
        t2 == a0 * b2 + a1 * b1 + a2 * b0 + t1 \div B13
        t3 == a0 * b3 + a1 * b2 + a2 * b1 + a3 * b0 + t2 \div B13
        t4 == a1 * b3 + a2 * b2 + a3 * b1 + t3 \div B13
        t5 == a2 * b3 + a3 * b2 + t4 \div B13
        t6 == a3 * b3 + t5 \div B13
        p3 == t3 % B13
        H  == t6
        L  == (p3 \div 1024) + (t4 % B13) * 8 + (t5 % B13) * 65536
        st == p3 % 1024 # 0 \/ t2 % B13 # 0 \/ t1 % B13 # 0 \/ t0 % B13 # 0
    IN  Normalise((a.s + b.s) % 2, H, L, st, a.e + b.e + 49)

\* n quotient bits of rem / d by restoring division; rem < d on entry.
\* Result <<bits, rh, rl>>.
RECURSIVE DivBits(_, _, _, _, _, _)
DivBits(rh, rl, dh, dl, n, acc) ==
    IF n = 0 THEN <<acc, rh, rl>>
    ELSE LET l2 == 2 * rl
             h2 == 2 * rh + l2 \div B26
             l3 == l2 % B26
             ge == h2 > dh \/ (h2 = dh /\ l3 >= dl)
             bo == IF l3 < dl THEN 1 ELSE 0
         IN  IF ge
             THEN DivBits(h2 - dh - bo, l3 - dl + bo * B26, dh, dl, n - 1,
                          2 * acc + 1)
             ELSE DivBits(h2, l3, dh, dl, n - 1, 2 * acc)

FDiv(a, b) ==
    IF IsZero(a) THEN FZero
    ELSE
    LET ge  == ~(a.h < b.h \/ (a.h = b.h /\ a.l < b.l))
        bo  == IF a.l < b.l THEN 1 ELSE 0
        rh0 == IF ge THEN a.h - b.h - bo ELSE a.h
        rl0 == IF ge THEN a.l - b.l + bo * B26 ELSE a.l
        q1  == DivBits(rh0, rl0, b.h, b.l, 27, IF ge THEN 1 ELSE 0)
        q2  == DivBits(q1[2], q1[3], b.h, b.l, 29, 0)
    IN  Normalise((a.s + b.s) % 2, q1[1], q2[1], q2[2] # 0 \/ q2[3] # 0,
                  a.e - b.e - 56)

\* numpy.rint: the nearest integer, ties to even
FRint(a) ==
    IF IsZero(a) \/ a.e >= 0 THEN a
    ELSE LET sh == ShiftRight(a.h, 8 * a.l, -a.e)
             r  == RoundGRS(a.s, sh[1], sh[2], sh[3], 0)
         IN  Normalise(a.s, r.h, 8 * r.l, FALSE, -3)

\* the binary64 value of the integer n (|n| < 2^26) times 2^k
FInt(n, k) ==
    IF n = 0 THEN FZero
    ELSE Normalise(IF n < 0 THEN 1 ELSE 0, 0, 8 * (IF n < 0 THEN -n ELSE n),
                   FALSE, k - 3)

FOne == FInt(1, 0)
FTwo == FInt(2, 0)
FMinusOne == FInt(-1, 0)
FThousand == FInt(1000, 0)

\* the binary64 value with sign s, significand h * 2^26 + l and exponent e
Dbl(s, h, l, e) == [s |-> s, h |-> h, l |-> l, e |-> e]

\* the value of a local that has not been assigned yet
Undefined == [undef |-> TRUE]

\* ------------------------------------------------------------------------
\* area_to_mach: constants and the relation
\* ------------------------------------------------------------------------
gamma == Dbl(0, 93952409, 40265318, -52)          \* 1.4
tolerance == Dbl(0, 70368744, 11922829, -72)      \* 0.000001
lower_limit == FSub(FOne, tolerance)
upper_limit == FAdd(FOne, tolerance)
decimals == 5

\* x ** ((gamma + 1)/(gamma - 1)).  In binary64 the exponent evaluates to
\* 6.000000000000001, one unit in the last place above 6; the model takes
\* the sixth power.  The two differ by the factor x^(8.9e-16), a relative
\* 1e-15 for the bases the search visits, nine orders of magnitude below
\* the tolerance the result is compared with.
Power(x) ==
    LET x2 == FMul(x, x)
        x3 == FMul(x2, x)
    IN  FMul(x3, x3)

\* right side "rs" of the area-mach relation equation
RightSide(m) ==
    LET m2   == FMul(m, m)
        base == FDiv(FMul(FTwo,
                          FAdd(FOne, FDiv(FMul(FSub(gamma, FOne), m2),
                                          FTwo))),
                     FAdd(gamma, FOne))
    IN  FMul(FDiv(FOne, m2), Power(base))

\* LeftSide with the throat radius left unsquared
LeftSide_ThroatNotSquared(rl, rt) ==
    LET local_area_ratio == FDiv(FMul(rl, rl), rt)
    IN  FMul(local_area_ratio, local_area_ratio)

\* left side "ls": the squared local area ratio
LeftSide(rl, rt) ==
    LET local_area_ratio == FDiv(FMul(rl, rl), FMul(rt, rt))
    IN  FMul(local_area_ratio, local_area_ratio)

\* i = rs / ls
Ratio(m, left) == FDiv(RightSide(m), left)

\* IsSupersonic with the throat position counted as upstream
IsSupersonic_ZeroUpstream(x) == FGreater(x, FZero)

\* the regime flag: downstream of the throat unless x_pos < 0
IsSupersonic(x) == ~FLess(x, FZero)

\* InvalidInput with the comparison turned round
InvalidInput_Swapped(rl, rt) == FGreater(rl, rt)

\* the validity test of line 42
InvalidInput(rl, rt) == FLess(rl, rt)

\* the trivial case test of line 69
AtThroat(r) == FGreater(r, lower_limit) /\ FLess(r, upper_limit)

\* OutOfBand without the test against the upper limit
OutOfBand_LowerOnly(r) == FLess(r, lower_limit)

\* the condition of the outer while loops
OutOfBand(r) == FLess(r, lower_limit) \/ FGreater(r, upper_limit)

\* the conditions of the inner while loops
Above(r) == FGreater(r, upper_limit)
Below(r) == FLess(r, lower_limit)

\* step_size after a step that reached ratio r: reversed and divided by 10
\* on an overshoot
\* Reverse with a reduction by 100 instead of 10
Reverse_Hundredth(step) == FMul(step, Dbl(1, 85899345, 61740155, -59))

InitialStep == Dbl(1, 107374182, 26843546, -56)     \* -0.1
ReverseFactor == Dbl(1, 107374182, 26843546, -56)   \* -0.1
Reverse(step) == FMul(step, ReverseFactor)
AfterStepAbove(step, r) == IF Below(r) THEN Reverse(step) ELSE step
AfterStepBelow(step, r) == IF Above(r) THEN Reverse(step) ELSE step

\* numpy.around(m, decimals): multiply by 10^decimals, rint, divide
Scale == FInt(10 ^ decimals, 0)
Around(m) == FDiv(FRint(FMul(m, Scale)), Scale)

\* ------------------------------------------------------------------------
\* the contour
\* ------------------------------------------------------------------------
Point(x, y) == [x |-> FInt(x, 0), y |-> y]

\* the throat radius of the call at the end of the script
ThroatRadius == Dbl(0, 72583269, 38976828, -50)   \* 4.3263

\* The rows a contour file is drawn from: (x_nozzle, y_nozzle).
Master ==
    << Point(-40, Dbl(0, 108157500, 0, -24)),         \* 432630000.0
       Point(-35, Dbl(0, 70882099, 13421773, -40)),   \* 4326.3
       Point(-30, Dbl(0, 108874904, 24910810, -49)),  \* 12.9789
       Point(-20, Dbl(0, 83886096, 52158083, -50)),   \* 5.000001
       Point(-10, Dbl(0, 83886080, 0, -50)),          \* 5.0
       Point(0,   Dbl(0, 72583269, 38976828, -50)),   \* 4.3263
       Point(10,  Dbl(0, 83886080, 0, -50)),          \* 5.0
       Point(20,  Dbl(0, 83886096, 52158083, -50)),   \* 5.000001
       Point(30,  Dbl(0, 72583269, 38976828, -49)),   \* 8.6526
       Point(0,   Dbl(0, 100663296, 0, -50)),         \* 6.0
       Point(5,   Dbl(0, 72583276, 56312857, -50)),   \* 4.32630043263
       Point(-5,  Dbl(0, 72583276, 56312857, -50)),   \* 4.32630043263
       Point(-3,  Dbl(0, 72583437, 23686745, -50)),   \* 4.32631
       Point(3,   Dbl(0, 72583437, 23686745, -50)),   \* 4.32631
       Point(-2,  Dbl(0, 72583269, 38976828, -50)),   \* 4.3263
       Point(2,   Dbl(0, 72583269, 38976828, -50)),   \* 4.3263
       Point(-1,  Dbl(0, 67108864, 0, -50)),          \* 4.0
       Point(1,   Dbl(0, 67108864, 0, -50)) >>        \* 4.0

\* the longest contour file, and the most steps one search is followed for
MaxLen == 3
MaxSteps == 1001

NoFile == [written |-> FALSE, rows |-> <<>>]

VARIABLES df, radius_throat, pc, idx, contour_mach, xy_file, csv_file, error,
          x_pos, radius_local, mach_no, step_size, supersonic, ls, i,
          local_mach, steps, run, turned, reversals, calls

vars == <<df, radius_throat, pc, idx, contour_mach, xy_file, csv_file, error,
          x_pos, radius_local, mach_no, step_size, supersonic, ls, i,
          local_mach, steps, run, turned, reversals, calls>>

profile == <<df, radius_throat, idx, contour_mach, xy_file, csv_file, error,
             calls>>
ghost == <<steps, run, turned, reversals>>

\* nozzle_contour_to_mach up to the first loop: the file is read and
\* contour_mach is a table of zeros
Init ==
    /\ \E a \in 1..(Len(Master) + 1), n \in 0..MaxLen :
          /\ a + n - 1 <= Len(Master)
          /\ df = SubSeq(Master, a, a + n - 1)
    /\ radius_throat = ThroatRadius
    /\ pc = "loop"
    /\ idx = 0
    /\ contour_mach = [k \in 1..Len(df) |-> <<FZero, FZero, FZero>>]
    /\ xy_file = NoFile
    /\ csv_file = NoFile
    /\ error = {}
    /\ x_pos = Undefined
    /\ radius_local = Undefined
    /\ mach_no = Undefined
    /\ step_size = Undefined
    /\ supersonic = FALSE
    /\ ls = Undefined
    /\ i = Undefined
    /\ local_mach = Undefined
    /\ steps = 0
    /\ run = 0
    /\ turned = FALSE
    /\ reversals = 0
    /\ calls = <<>>

\* line 136 and lines 30-39: the call and the initial values
Call ==
    /\ pc = "loop"
    /\ idx < Len(df)
    /\ x_pos' = df[idx + 1].x
    /\ radius_local' = df[idx + 1].y
    /\ mach_no' = FOne
    /\ step_size' = InitialStep
    /\ supersonic' = FALSE
    /\ ls' = Undefined
    /\ i' = Undefined
    /\ local_mach' = Undefined
    /\ steps' = 0
    /\ run' = 0
    /\ turned' = FALSE
    /\ reversals' = 0
    /\ pc' = "check"
    /\ UNCHANGED profile

\* lines 42-43: the exception leaves both functions and ends the script
Raise ==
    /\ pc = "check"
    /\ InvalidInput(radius_local, radius_throat)
    /\ error' = {[name |-> "radius_throat", value |-> radius_throat]}
    /\ pc' = "error"
    /\ UNCHANGED <<df, radius_throat, idx, contour_mach, xy_file, csv_file,
                   calls, x_pos, radius_local, mach_no, step_size,
                   supersonic, ls, i, local_mach>>
    /\ UNCHANGED ghost

\* lines 48-62: the regime, the two sides and their ratio at mach_no = 1
Evaluate ==
    /\ pc = "check"
    /\ ~InvalidInput(radius_local, radius_throat)
    /\ supersonic' = IsSupersonic(x_pos)
    /\ ls' = LeftSide(radius_local, radius_throat)
    /\ i' = Ratio(mach_no, ls')
    /\ pc' = "branch"
    /\ UNCHANGED <<x_pos, radius_local, mach_no, step_size, local_mach>>
    /\ UNCHANGED profile
    /\ UNCHANGED ghost

Returned(value, raw) ==
    [x_pos |-> x_pos, radius_local |-> radius_local,
     radius_throat |-> radius_throat, supersonic |-> supersonic, ls |-> ls,
     raw |-> raw, result |-> value, steps |-> steps]

\* lines 69-71: the trivial case
ReturnThroat ==
    /\ pc = "branch"
    /\ AtThroat(i)
    /\ local_mach' = mach_no
    /\ calls' = Append(calls, Returned(mach_no, mach_no))
    /\ pc' = "returned"
    /\ UNCHANGED <<df, radius_throat, idx, contour_mach, xy_file, csv_file,
                   error, x_pos, radius_local, mach_no, step_size,
                   supersonic, ls, i>>
    /\ UNCHANGED ghost

\* line 75
EnterSubsonic ==
    /\ pc = "branch"
    /\ ~AtThroat(i)
    /\ ~supersonic
    /\ pc' = "outer"
    /\ UNCHANGED <<x_pos, radius_local, mach_no, step_size, supersonic, ls,
                   i, local_mach>>
    /\ UNCHANGED profile
    /\ UNCHANGED ghost

\* EnterSupersonic without the change of sign of line 97
EnterSupersonic_NoFlip ==
    /\ pc = "branch"
    /\ ~AtThroat(i)
    /\ supersonic
    /\ pc' = "outer"
    /\ UNCHANGED <<x_pos, radius_local, mach_no, step_size, supersonic, ls,
                   i, local_mach>>
    /\ UNCHANGED profile
    /\ UNCHANGED ghost

\* lines 96-97
EnterSupersonic ==
    /\ pc = "branch"
    /\ ~AtThroat(i)
    /\ supersonic
    /\ step_size' = FMul(step_size, FMinusOne)
    /\ pc' = "outer"
    /\ UNCHANGED <<x_pos, radius_local, mach_no, supersonic, ls, i,
                   local_mach>>
    /\ UNCHANGED profile
    /\ UNCHANGED ghost

\* lines 76 and 98: the outer loop is entered
OuterLoop ==
    /\ pc = "outer"
    /\ OutOfBand(i)
    /\ pc' = IF supersonic THEN "below" ELSE "above"
    /\ UNCHANGED <<x_pos, radius_local, mach_no, step_size, supersonic, ls,
                   i, local_mach>>
    /\ UNCHANGED profile
    /\ UNCHANGED ghost

\* lines 92-95 and 113-116: the else branch of the outer loop
ReturnRounded ==
    /\ pc = "outer"
    /\ ~OutOfBand(i)
    /\ mach_no' = Around(mach_no)
    /\ local_mach' = mach_no'
    /\ calls' = Append(calls, Returned(mach_no', mach_no))
    /\ pc' = "returned"
    /\ UNCHANGED <<df, radius_throat, idx, contour_mach, xy_file, csv_file,
                   error, x_pos, radius_local, step_size, supersonic, ls, i>>
    /\ UNCHANGED ghost

Stepped(crossed) ==
    /\ steps' = steps + 1
    /\ run' = IF turned THEN 1 ELSE run + 1
    /\ turned' = crossed
    /\ reversals' = IF crossed THEN reversals + 1 ELSE reversals

\* lines 77-83 and 106-112: one pass of "while i > upper_limit"
StepAbove ==
    /\ pc = "above"
    /\ Above(i)
    /\ steps < MaxSteps
    /\ mach_no' = FAdd(mach_no, step_size)
    /\ i' = Ratio(mach_no', ls)
    /\ step_size' = AfterStepAbove(step_size, i')
    /\ Stepped(step_size' # step_size)
    /\ UNCHANGED <<pc, x_pos, radius_local, supersonic, ls, local_mach>>
    /\ UNCHANGED profile

LeaveAbove ==
    /\ pc = "above"
    /\ ~Above(i)
    /\ pc' = IF supersonic THEN "outer" ELSE "below"
    /\ UNCHANGED <<x_pos, radius_local, mach_no, step_size, supersonic, ls,
                   i, local_mach>>
    /\ UNCHANGED profile
    /\ UNCHANGED ghost

\* lines 84-90 and 99-105: one pass of "while i < lower_limit"
StepBelow ==
    /\ pc = "below"
    /\ Below(i)
    /\ steps < MaxSteps
    /\ mach_no' = FAdd(mach_no, step_size)
    /\ i' = Ratio(mach_no', ls)
    /\ step_size' = AfterStepBelow(step_size, i')
    /\ Stepped(step_size' # step_size)
    /\ UNCHANGED <<pc, x_pos, radius_local, supersonic, ls, local_mach>>
    /\ UNCHANGED profile

LeaveBelow ==
    /\ pc = "below"
    /\ ~Below(i)
    /\ pc' = IF supersonic THEN "above" ELSE "outer"
    /\ UNCHANGED <<x_pos, radius_local, mach_no, step_size, supersonic, ls,
                   i, local_mach>>
    /\ UNCHANGED profile
    /\ UNCHANGED ghost

\* Store filling the table from its end
Store_FromEnd ==
    /\ pc = "returned"
    /\ contour_mach' = [contour_mach EXCEPT
                           ![Len(df) - idx] = <<df[idx + 1].x, df[idx + 1].y,
                                                local_mach>>]
    /\ idx' = idx + 1
    /\ pc' = "loop"
    /\ UNCHANGED <<df, radius_throat, xy_file, csv_file, error, calls,
                   x_pos, radius_local, mach_no, step_size, supersonic, ls,
                   i, local_mach>>
    /\ UNCHANGED ghost

\* lines 137-138: the row of the point and the next index
Store ==
    /\ pc = "returned"
    /\ contour_mach' = [contour_mach EXCEPT
                           ![idx + 1] = <<df[idx + 1].x, df[idx + 1].y,
                                          local_mach>>]
    /\ idx' = idx + 1
    /\ pc' = "loop"
    /\ UNCHANGED <<df, radius_throat, xy_file, csv_file, error, calls,
                   x_pos, radius_local, mach_no, step_size, supersonic, ls,
                   i, local_mach>>
    /\ UNCHANGED ghost

\* lines 140-155: the two tables are built and written
Export ==
    /\ pc = "loop"
    /\ ~(idx < Len(df))
    /\ xy_file' = [written |-> TRUE,
                   rows |-> [k \in 1..Len(df) |->
                               <<FDiv(contour_mach[k][1], FThousand),
                                 contour_mach[k][3]>>]]
    /\ csv_file' = [written |-> TRUE, rows |-> contour_mach]
    /\ pc' = "done"
    /\ UNCHANGED <<df, radius_throat, idx, contour_mach, error, calls,
                   x_pos, radius_local, mach_no, step_size, supersonic, ls,
                   i, local_mach>>
    /\ UNCHANGED ghost

Next ==
    \/ Call
    \/ Raise
    \/ Evaluate
    \/ ReturnThroat
    \/ EnterSubsonic
    \/ EnterSupersonic
    \/ OuterLoop
    \/ ReturnRounded
    \/ StepAbove
    \/ LeaveAbove
    \/ StepBelow
    \/ LeaveBelow
    \/ Store
    \/ Export

Spec == Init /\ [][Next]_vars

\* ------------------------------------------------------------------------
\* properties
\* ------------------------------------------------------------------------
\* r lies in [1 - tolerance, 1 + tolerance]
InTolerance(r) == ~FLess(r, lower_limit) /\ ~FGreater(r, upper_limit)

\* the positions inside area_to_mach after the validity test
Solving == pc \in {"branch", "outer", "above", "below"}

\* the last call that returned
LastCall == calls[Len(calls)]

\* C1, as stated: the value area_to_mach returns, after the rounding to 5
\* decimals, satisfies the area-Mach relation within the tolerance.
C1_ReturnedWithinTolerance ==
    pc = "returned" =>
        /\ ~IsZero(local_mach)
        /\ InTolerance(Ratio(local_mach, ls))

\* C1, amended: the Mach number the search converges to, mach_no before the
\* rounding, satisfies the relation within the tolerance, and the value
\* returned is that number rounded to 5 decimals (the unrounded 1 in the
\* trivial case).
C1_ConvergedWithinTolerance ==
    pc = "returned" =>
        /\ InTolerance(Ratio(LastCall.raw, ls))
        /\ local_mach = LastCall.result
        /\ \/ LastCall.steps = 0 /\ local_mach = LastCall.raw
           \/ local_mach = FDiv(FRint(FMul(LastCall.raw, Scale)), Scale)

C1_Witness ==
    /\ pc = "returned"
    /\ steps > 0
    /\ local_mach # LastCall.raw
    /\ ~InTolerance(Ratio(local_mach, ls))

\* C2: with radius_local equal to radius_throat area_to_mach returns exactly
\* 1 without a search step, whatever the sign of x_pos.
C2_Throat ==
    (pc \in {"check", "branch", "outer", "above", "below", "returned",
             "error"} /\ radius_local = radius_throat) =>
        /\ pc \in {"check", "branch", "returned"}
        /\ steps = 0
        /\ pc = "returned" => local_mach = FOne

C2_Witness ==
    /\ pc = "returned"
    /\ radius_local = radius_throat
    /\ FLess(x_pos, FZero)
    /\ local_mach = FOne

\* C3, as stated: for every radius_local > radius_throat the value returned
\* is below 1 when x_pos < 0 and above 1 when x_pos >= 0.
C3_BranchForEveryRatio ==
    (pc = "returned" /\ FGreater(radius_local, radius_throat)) =>
        IF FLess(x_pos, FZero)
        THEN FLess(local_mach, FOne)
        ELSE FGreater(local_mach, FOne)

\* C3, amended: for radius_local > radius_throat the value returned is
\* below 1 when x_pos < 0 and above 1 when x_pos >= 0 provided the ratio at
\* mach_no = 1, 1 / ls, is below 1 - tolerance; when that ratio is strictly
\* inside the tolerance band the value returned is 1 in both regimes.
C3_BranchOutsideBand ==
    (pc = "returned" /\ FGreater(radius_local, radius_throat)) =>
        /\ FLess(FDiv(FOne, ls), lower_limit) =>
              IF FLess(x_pos, FZero)
              THEN FLess(local_mach, FOne)
              ELSE FGreater(local_mach, FOne)
        /\ (/\ FGreater(FDiv(FOne, ls), lower_limit)
            /\ FLess(FDiv(FOne, ls), upper_limit)) => local_mach = FOne

C3_Witness ==
    /\ pc = "returned"
    /\ FGreater(radius_local, radius_throat)
    /\ FLess(FDiv(FOne, ls), lower_limit)
    /\ x_pos = FZero
    /\ FGreater(local_mach, FOne)

\* two returned calls in the same regime, the first with the smaller of two
\* area ratios above 1
Ordered(a, b) ==
    /\ FGreater(calls[a].radius_local, calls[a].radius_throat)
    /\ FGreater(calls[b].radius_local, calls[b].radius_throat)
    /\ calls[a].radius_throat = calls[b].radius_throat
    /\ FLess(calls[a].radius_local, calls[b].radius_local)
    /\ FLess(calls[a].x_pos, FZero) <=> FLess(calls[b].x_pos, FZero)

\* C4, as stated: of two area ratios above 1 the smaller gives the strictly
\* larger value on the subsonic branch and the strictly smaller value on the
\* supersonic branch.
C4_StrictlyMonotonic ==
    \A a, b \in DOMAIN calls :
        Ordered(a, b) =>
            IF FLess(calls[a].x_pos, FZero)
            THEN FGreater(calls[a].result, calls[b].result)
            ELSE FLess(calls[a].result, calls[b].result)

\* C4, amended: of two area ratios above 1 the smaller gives a value that
\* is not smaller on the subsonic branch and not larger on the supersonic
\* branch; the two values can be equal.
C4_Monotonic ==
    \A a, b \in DOMAIN calls :
        Ordered(a, b) =>
            IF FLess(calls[a].x_pos, FZero)
            THEN ~FLess(calls[a].result, calls[b].result)
            ELSE ~FGreater(calls[a].result, calls[b].result)

C4_Witness ==
    \E a, b, c \in DOMAIN calls :
        /\ Ordered(a, b)
        /\ Ordered(b, c)
        /\ calls[a].result = calls[b].result
        /\ calls[b].result # calls[c].result

\* C5: with radius_local < radius_throat area_to_mach ends in the error
\* before the area ratio is formed, before the relation is evaluated and
\* before any search step, and returns nothing.
C5_InvalidGeometry ==
    /\ [](pc = "error" =>
             /\ FLess(radius_local, radius_throat)
             /\ error # {}
             /\ ls = Undefined
             /\ i = Undefined
             /\ local_mach = Undefined
             /\ steps = 0
             /\ Len(calls) = idx)
    /\ []((Solving \/ pc = "returned") =>
             ~FLess(radius_local, radius_throat))
    /\ [][(pc = "check" /\ FLess(radius_local, radius_throat))
             => pc' = "error"]_vars

C5_Witness ==
    /\ pc = "error"
    /\ FLess(radius_local, radius_throat)
    /\ ~FLess(x_pos, FZero)

C7_OrderPreserved ==
    pc = "done" =>
        /\ Len(contour_mach) = Len(df)
        /\ Len(calls) = Len(df)
        /\ csv_file.written /\ csv_file.rows = contour_mach
        /\ xy_file.written /\ Len(xy_file.rows) = Len(df)
        /\ \A k \in 1..Len(df) :
              /\ calls[k].x_pos = df[k].x
              /\ calls[k].radius_local = df[k].y
              /\ calls[k].radius_throat = radius_throat
              /\ contour_mach[k] = <<df[k].x, df[k].y, calls[k].result>>
              /\ xy_file.rows[k][2] = calls[k].result

C7_Witness ==
    /\ pc = "done"
    /\ df = SubSeq(Master, 5, 7)
    /\ FLess(contour_mach[1][3], FOne)
    /\ contour_mach[2][3] = FOne
    /\ FGreater(contour_mach[3][3], FOne)

\* C8: when area_to_mach fails for a point, nozzle_contour_to_mach ends in
\* an error that names the index and the position of the point, and neither
\* table is written.
C8_FailureNamesPoint ==
    pc = "error" =>
        /\ ~xy_file.written
        /\ ~csv_file.written
        /\ \E f \in error : f.name = "index" /\ f.value = idx
        /\ \E f \in error : f.name = "position" /\ f.value = x_pos

\* C9: step_size starts with magnitude 0.1; a step multiplies it by -0.1
\* exactly when the ratio moves from one side of the tolerance band to the
\* other and leaves it unchanged otherwise; after the first overshoot no run
\* of steps in one direction is longer than 10.
C9_DecayingStep ==
    /\ []((Solving /\ pc # "branch" /\ steps = 0) =>
             step_size \in {InitialStep, FNeg(InitialStep)})
    /\ []((Solving /\ reversals - (IF turned THEN 1 ELSE 0) >= 1) =>
             run <= 10)
    /\ [][steps' = steps + 1 =>
             step_size' =
                 IF \/ FGreater(i, upper_limit) /\ FLess(i', lower_limit)
                    \/ FLess(i, lower_limit) /\ FGreater(i', upper_limit)
                 THEN FMul(step_size, ReverseFactor)
                 ELSE step_size]_vars

C9_Witness ==
    /\ Solving
    /\ reversals >= 3
    /\ run = 10

\* C10: at every evaluation of the right side during the search mach_no is
\* strictly positive.
C10_MachPositive ==
    Solving => FGreater(mach_no, FZero)
====
